---- MODULE Spec2Model ----
(***************************************************************************)
(* A model of the two tabletools binaries.                                 *)
(*                                                                         *)
(*   unjustify (src/src/bin/unjustify.rs): infers the column boundaries of *)
(*   a whitespace-aligned table and splits every line at them.             *)
(*   unnest    (src/src/bin/unnest.rs): flattens a JSON value into rows.   *)
(*                                                                         *)
(* A Rust String / Vec<char> is a sequence of characters, a character is a *)
(* one-element token (a TLA+ string).  Positions and ranges keep the       *)
(* source's 0-based numbering: position i of the source is element i+1 of  *)
(* the TLA+ sequence.  Option<T> is a sequence of at most one element.     *)
(***************************************************************************)
EXTENDS Integers, Sequences, FiniteSets, TLC

VARIABLES
    pc,          \* position of the running program
    args,        \* unjustify: the parsed Cli
    stdin,       \* unjustify: the lines waiting on standard input
    lines,       \* unjustify: main's `lines` (the lines folded so far in SpecFold)
    spaces,      \* unjustify: main's `spaces`, the boundary mask
    col_ranges,  \* unjustify: main's `columns`
    out_ranges,  \* unjustify: main's `output_columns`
    outlns,      \* unjustify: the `outln` of every row emitted, in order
    stdout,      \* unjustify: the text printed, one element per print!
    exit_code,   \* unjustify: <<>> while running, <<n>> once the process ended
    nargs,       \* unnest: the parsed Cli
    json,        \* unnest: the parsed input value
    path,        \* unnest: the path recurse_value is called with
    registry,    \* unnest: main's `columns`
    rows         \* unnest: main's `rows`

vars == <<pc, args, stdin, lines, spaces, col_ranges, out_ranges, outlns,
          stdout, exit_code, nargs, json, path, registry, rows>>

unjustify_vars == <<args, stdin, lines, spaces, col_ranges, out_ranges, outlns,
                    stdout, exit_code>>

unnest_vars == <<nargs, json, path, registry, rows>>

(***************************************************************************)
(* Bounds of the model.                                                    *)
(***************************************************************************)
FoldMaxLines == 3
FoldMaxChars == 5
MaxMaskLen == 6
MainMaxLines == 2
MainMaxChars == 3
MaxNodes == 4

(***************************************************************************)
(* Generic helpers.                                                        *)
(***************************************************************************)
None == <<>>

Some(x) == <<x>>

Min(a, b) == IF a < b THEN a ELSE b

StringsUpTo(S, n) == UNION {[1..k -> S] : k \in 0..n}

RECURSIVE TotalChars(_)
TotalChars(ls) ==
    IF ls = <<>> THEN 0 ELSE Len(ls[1]) + TotalChars(Tail(ls))

Contains(s, c) == \E i \in 1..Len(s) : s[i] = c

(***************************************************************************)
(* Characters.  char::is_whitespace is Unicode White_Space; the alphabets  *)
(* of the model draw the space and the tab from it.                        *)
(***************************************************************************)
WhiteSpace == {" ", "\t"}

is_whitespace(c) == c \in WhiteSpace

\* char::to_lowercase on the letters of the model's alphabets.
char_to_lowercase(c) ==
    CASE c = "A" -> "a"
      [] c = "B" -> "b"
      [] OTHER -> c

to_lowercase(s) == [i \in 1..Len(s) |-> char_to_lowercase(s[i])]

RECURSIVE trim_start(_)
trim_start(s) ==
    IF s # <<>> /\ is_whitespace(s[1]) THEN trim_start(Tail(s)) ELSE s

RECURSIVE trim_end(_)
trim_end(s) ==
    IF s # <<>> /\ is_whitespace(s[Len(s)])
    THEN trim_end(SubSeq(s, 1, Len(s) - 1))
    ELSE s

trim(s) == trim_end(trim_start(s))

RECURSIVE join(_, _)
join(strs, sep) ==
    IF strs = <<>> THEN <<>>
    ELSE IF Len(strs) = 1 THEN strs[1]
    ELSE strs[1] \o sep \o join(Tail(strs), sep)

(***************************************************************************)
(* unjustify: the Cli and its methods.                                     *)
(***************************************************************************)
\* The characters of --border, pushed onto args.delimiters by main.
BorderChars == <<"+", "-", "|", "BOX_VERTICAL">>

DefaultCli ==
    [output_columns |-> <<>>, insensitive |-> FALSE, header |-> FALSE,
     delimiters |-> <<>>, whitespace |-> "Any", border |-> FALSE,
     output_delimiter |-> None, unit_separator |-> FALSE,
     line_delimiter |-> None, record_separator |-> FALSE,
     null_end_line |-> FALSE]

\* Mutant: the --record-separator / -0 pair is not checked.
validate_without_rs_nul(self) ==
    (IF self.unit_separator /\ self.output_delimiter # None
     THEN <<"--unit-separator is incompatible with --output">> ELSE <<>>)
    \o (IF self.null_end_line /\ self.line_delimiter # None
        THEN <<"--line-delimiter is incompatible with -0">> ELSE <<>>)
    \o (IF self.record_separator /\ self.line_delimiter # None
        THEN <<"--line-delimiter is incompatible with --record-separator">> ELSE <<>>)

validate(self) ==
    (IF self.unit_separator /\ self.output_delimiter # None
     THEN <<"--unit-separator is incompatible with --output">> ELSE <<>>)
    \o (IF self.null_end_line /\ self.line_delimiter # None
        THEN <<"--line-delimiter is incompatible with -0">> ELSE <<>>)
    \o (IF self.record_separator /\ self.line_delimiter # None
        THEN <<"--line-delimiter is incompatible with --record-separator">> ELSE <<>>)
    \o (IF self.record_separator /\ self.null_end_line
        THEN <<"--record-separator is incompatible with -0">> ELSE <<>>)

computed_output_delimiter(self) ==
    IF self.unit_separator THEN <<"\\x1F">>
    ELSE IF self.output_delimiter # None THEN self.output_delimiter[1]
    ELSE <<",">>

computed_line_delimiter(self) ==
    IF self.null_end_line THEN <<"\\0">>
    ELSE IF self.record_separator THEN <<"\\x1E">>
    ELSE IF self.line_delimiter # None THEN self.line_delimiter[1]
    ELSE <<"\n">>

(***************************************************************************)
(* unjustify: the delimiter classifier and the boundary mask.              *)
(***************************************************************************)
some_whitespace(c) == IF c # None THEN is_whitespace(c[1]) ELSE FALSE

\* Mutant: Double looks at the previous character only.
is_delimiter_before_only(a, before, c, after) ==
    LET matches_whitespace ==
            CASE a.whitespace = "Any" -> is_whitespace(c)
              [] a.whitespace = "Ignore" -> FALSE
              [] a.whitespace = "Double" -> is_whitespace(c) /\ some_whitespace(before)
        matches_delimiters == Contains(a.delimiters, c)
    IN  matches_whitespace \/ matches_delimiters

is_delimiter(a, before, c, after) ==
    LET matches_whitespace ==
            CASE a.whitespace = "Any" -> is_whitespace(c)
              [] a.whitespace = "Ignore" -> FALSE
              [] a.whitespace = "Double" ->
                    is_whitespace(c) /\ (some_whitespace(before) \/ some_whitespace(after))
        matches_delimiters == Contains(a.delimiters, c)
    IN  matches_whitespace \/ matches_delimiters

\* is_delimiter at position i (0-based) of chars, with the neighbours
\* update_spaces hands it.
delimiter_at(a, chars, i) ==
    LET before == IF i > 0 THEN Some(chars[i]) ELSE None
        after == IF i + 1 < Len(chars) THEN Some(chars[i + 2]) ELSE None
    IN  is_delimiter(a, before, chars[i + 1], after)

\* The for loop of update_spaces from position i (0-based) on.
RECURSIVE update_spaces_from(_, _, _, _)
update_spaces_from(a, mask, chars, i) ==
    IF i >= Len(chars) THEN mask
    ELSE IF i < Len(mask)
         THEN update_spaces_from(
                  a, [mask EXCEPT ![i + 1] = @ /\ delimiter_at(a, chars, i)], chars, i + 1)
         ELSE update_spaces_from(
                  a, Append(mask, delimiter_at(a, chars, i)), chars, i + 1)

\* Mutant: an existing position is overwritten by the new line's
\* classification instead of being narrowed by it.
update_spaces_overwrite(a, mask, string) ==
    [i \in 1..(IF Len(mask) > Len(string) THEN Len(mask) ELSE Len(string)) |->
        IF i <= Len(string) THEN delimiter_at(a, string, i - 1) ELSE mask[i]]

\* Mutant: the mask is rebuilt over the positions of the new line only, so a
\* shorter line cuts it.
update_spaces_truncate(a, mask, string) ==
    [i \in 1..Len(string) |->
        IF i <= Len(mask) THEN mask[i] /\ delimiter_at(a, string, i - 1)
        ELSE delimiter_at(a, string, i - 1)]

update_spaces(a, mask, string) == update_spaces_from(a, mask, string, 0)

RECURSIVE fold_update_spaces(_, _, _)
fold_update_spaces(a, mask, ls) ==
    IF ls = <<>> THEN mask
    ELSE fold_update_spaces(a, update_spaces(a, mask, ls[1]), Tail(ls))

(***************************************************************************)
(* unjustify: column ranges, row splitting, column selection.              *)
(***************************************************************************)
\* The for loop of columns from position i (0-based) on; start is an Option.
RECURSIVE columns_from(_, _, _, _)
columns_from(mask, i, start, ret) ==
    IF i >= Len(mask)
    THEN IF start # None THEN Append(ret, <<start[1], Len(mask)>>) ELSE ret
    ELSE IF start = None /\ ~mask[i + 1]
         THEN columns_from(mask, i + 1, Some(i), ret)
    ELSE IF start # None /\ mask[i + 1]
         THEN columns_from(mask, i + 1, None, Append(ret, <<start[1], i>>))
    ELSE columns_from(mask, i + 1, start, ret)

\* Mutant: the run still open when the scan ends is not pushed.
columns_without_final_push(mask) ==
    LET ret == columns_from(mask, 0, None, <<>>)
    IN  IF mask # <<>> /\ ~mask[Len(mask)] THEN SubSeq(ret, 1, Len(ret) - 1) ELSE ret

columns(mask) == columns_from(mask, 0, None, <<>>)

RECURSIVE split_line(_, _)
split_line(cols, line) ==
    IF cols = <<>> THEN <<>>
    ELSE LET s == cols[1][1]
             e == cols[1][2]
         IN  IF s >= Len(line) THEN split_line(Tail(cols), line)
             ELSE <<trim(SubSeq(line, s + 1, Min(e, Len(line))))>>
                  \o split_line(Tail(cols), line)

\* The HashMap built by output_columns: zip(headings, columns) inserted in
\* order, a later insert of the same key replacing the earlier one.
RECURSIVE header_mapping(_, _, _, _)
header_mapping(headings, cols, insensitive, mapping) ==
    IF headings = <<>> \/ cols = <<>> THEN mapping
    ELSE LET head == IF insensitive THEN to_lowercase(headings[1]) ELSE headings[1]
         IN  header_mapping(Tail(headings), Tail(cols), insensitive,
                            [k \in DOMAIN mapping \cup {head} |->
                                IF k = head THEN cols[1] ELSE mapping[k]])

RECURSIVE lookup_desired(_, _, _)
lookup_desired(mapping, desired, insensitive) ==
    IF desired = <<>> THEN <<>>
    ELSE LET h == IF insensitive THEN to_lowercase(desired[1]) ELSE desired[1]
         IN  (IF h \in DOMAIN mapping THEN <<mapping[h]>> ELSE <<>>)
             \o lookup_desired(mapping, Tail(desired), insensitive)

output_columns(cols, header, desired, insensitive) ==
    IF Len(desired) = 0 THEN cols
    ELSE LET headings == split_line(cols, header)
             mapping == header_mapping(headings, cols, insensitive, <<>>)
         IN  lookup_desired(mapping, desired, insensitive)

(***************************************************************************)
(* Specification SpecFold: the fold of main (line 227), one update_spaces  *)
(* call per step, over every whitespace mode and extra-delimiter set.      *)
(***************************************************************************)
FoldChars == {" ", "a", ","}

FoldArgs ==
    {[DefaultCli EXCEPT !.whitespace = w, !.delimiters = d] :
        w \in {"Any", "Double", "Ignore"}, d \in {<<>>, <<",">>}}

Idle ==
    /\ nargs = [attribute_separator |-> ".", missing |-> ""]
    /\ json = [t |-> "Null", s |-> "", b |-> FALSE, n |-> 0, arr |-> <<>>, map |-> <<>>]
    /\ path = ""
    /\ registry = <<>>
    /\ rows = <<>>

InitFold ==
    /\ pc = "fold"
    /\ args \in FoldArgs
    /\ stdin = <<>>
    /\ lines = <<>>
    /\ spaces = <<>>
    /\ col_ranges = <<>>
    /\ out_ranges = <<>>
    /\ outlns = <<>>
    /\ stdout = <<>>
    /\ exit_code = None
    /\ Idle

FoldLine ==
    /\ pc = "fold"
    /\ Len(lines) < FoldMaxLines
    /\ \E string \in StringsUpTo(FoldChars, FoldMaxChars - TotalChars(lines)) :
          /\ spaces' = update_spaces(args, spaces, string)
          /\ lines' = Append(lines, string)
    /\ UNCHANGED <<pc, args, stdin, col_ranges, out_ranges, outlns, stdout, exit_code>>
    /\ UNCHANGED unnest_vars

NextFold == FoldLine

SpecFold == InitFold /\ [][NextFold]_vars

(***************************************************************************)
(* Claims about the boundary mask, checked under SpecFold.                 *)
(***************************************************************************)
RECURSIVE MaxLineLen(_)
MaxLineLen(ls) ==
    IF ls = <<>> THEN 0
    ELSE LET m == MaxLineLen(Tail(ls))
         IN  IF Len(ls[1]) > m THEN Len(ls[1]) ELSE m

\* C1: after folding a non-empty sequence of lines into an empty mask, the
\* mask is as long as the longest line, and position i is true exactly when
\* is_delimiter holds at i in every folded line longer than i.
C1_MaskIsIntersection ==
    (pc = "fold" /\ Len(lines) >= 1) =>
        /\ Len(spaces) = MaxLineLen(lines)
        /\ \A i \in 0..(Len(spaces) - 1) :
              spaces[i + 1] <=>
                 \A l \in 1..Len(lines) :
                    Len(lines[l]) > i => delimiter_at(args, lines[l], i)

\* Three folded lines of three different lengths, with a position the first
\* line marks a delimiter and a later line narrows to false, and a position
\* that stays true.
C1_Witness ==
    /\ pc = "fold"
    /\ Len(lines) = 3
    /\ Len(lines[1]) < Len(lines[2])
    /\ Len(lines[3]) < Len(lines[1])
    /\ \E i \in 0..(Len(lines[1]) - 1) :
          /\ delimiter_at(args, lines[1], i)
          /\ ~delimiter_at(args, lines[2], i)
          /\ ~spaces[i + 1]
    /\ \E i \in 1..Len(spaces) : spaces[i]

\* C9: in Double mode with no extra delimiters, folding a single line marks
\* a whitespace character a delimiter exactly when its previous or its next
\* character is whitespace: an isolated space (interior, or first or last
\* next to a non-whitespace character) is not a delimiter, every character
\* of a run of two or more whitespace characters is.
C9_DoubleMode ==
    (pc = "fold" /\ args.whitespace = "Double" /\ args.delimiters = <<>>
        /\ Len(lines) = 1) =>
        LET line == lines[1]
            n == Len(line)
            ws(k) == k >= 1 /\ k <= n /\ is_whitespace(line[k])
        IN  /\ Len(spaces) = n
            /\ \A k \in 1..n :
                  ws(k) => (spaces[k] <=> (ws(k - 1) \/ ws(k + 1)))
            \* an isolated space, wherever it stands
            /\ \A k \in 1..n :
                  (ws(k) /\ ~ws(k - 1) /\ ~ws(k + 1)) => ~spaces[k]
            \* every character of a run [lo, hi] of two or more
            /\ \A lo \in 1..n : \A hi \in (lo + 1)..n :
                  (\A k \in lo..hi : ws(k)) => (\A k \in lo..hi : spaces[k])

\* One line holding an isolated interior space and, elsewhere, a run of two.
C9_Witness ==
    /\ pc = "fold"
    /\ args.whitespace = "Double"
    /\ args.delimiters = <<>>
    /\ Len(lines) = 1
    /\ \E k \in 2..(Len(lines[1]) - 1) :
          /\ is_whitespace(lines[1][k])
          /\ ~is_whitespace(lines[1][k - 1])
          /\ ~is_whitespace(lines[1][k + 1])
          /\ ~spaces[k]
    /\ \E k \in 2..(Len(lines[1]) - 1) :
          /\ ~is_whitespace(lines[1][k - 1])
          /\ is_whitespace(lines[1][k])
          /\ is_whitespace(lines[1][k + 1])
          /\ spaces[k]
          /\ spaces[k + 1]

\* C10: an update_spaces call never shortens the mask, never turns a false
\* position true, and changes no position at or beyond the length of the
\* line it folds.
C10_MonotonicNarrowing ==
    [][Len(lines') = Len(lines) + 1 =>
          LET string == lines'[Len(lines')]
          IN  /\ Len(spaces') >= Len(spaces)
              /\ \A i \in 0..(Len(spaces) - 1) :
                    /\ ~spaces[i + 1] => ~spaces'[i + 1]
                    /\ i >= Len(string) => spaces'[i + 1] = spaces[i + 1]]_vars

\* A second, shorter line was folded that classifies as a delimiter a
\* position the first line had made false; the mask kept its length and the
\* position stayed false.
C10_Witness ==
    /\ pc = "fold"
    /\ Len(lines) >= 2
    /\ Len(lines[2]) < Len(lines[1])
    /\ Len(spaces) >= Len(lines[1])
    /\ \E i \in 0..(Len(lines[2]) - 1) :
          /\ ~delimiter_at(args, lines[1], i)
          /\ delimiter_at(args, lines[2], i)
          /\ ~spaces[i + 1]


(***************************************************************************)
(* Specification SpecColumns: columns applied to every mask of at most     *)
(* MaxMaskLen positions (main, line 229).                                  *)
(***************************************************************************)
InitColumns ==
    /\ pc = "columns"
    /\ args = DefaultCli
    /\ stdin = <<>>
    /\ lines = <<>>
    /\ spaces \in StringsUpTo(BOOLEAN, MaxMaskLen)
    /\ col_ranges = <<>>
    /\ out_ranges = <<>>
    /\ outlns = <<>>
    /\ stdout = <<>>
    /\ exit_code = None
    /\ Idle

ComputeColumns ==
    /\ pc = "columns"
    /\ col_ranges' = columns(spaces)
    /\ pc' = "ranges"
    /\ UNCHANGED <<args, stdin, lines, spaces, out_ranges, outlns, stdout, exit_code>>
    /\ UNCHANGED unnest_vars

NextColumns == ComputeColumns

SpecColumns == InitColumns /\ [][NextColumns]_vars

\* C2: columns(mask) is exactly the maximal runs of false positions, as
\* half-open ranges in left-to-right order: non-empty, non-overlapping and
\* strictly increasing, all false inside, all true outside, and a run that
\* reaches the end of the mask is closed at the mask length.
C2_ColumnsAreMaximalFalseRuns ==
    pc = "ranges" =>
        LET n == Len(spaces)
            k == Len(col_ranges)
            start(r) == col_ranges[r][1]
            end(r) == col_ranges[r][2]
            inside(i) == \E r \in 1..k : start(r) <= i /\ i < end(r)
        IN  /\ \A r \in 1..k : 0 <= start(r) /\ start(r) < end(r) /\ end(r) <= n
            /\ \A r \in 1..(k - 1) : end(r) < start(r + 1)
            /\ \A i \in 0..(n - 1) : inside(i) <=> ~spaces[i + 1]
            /\ (n > 0 /\ ~spaces[n]) => (k > 0 /\ end(k) = n)

\* A mask that starts with a delimiter, holds at least two runs, and whose
\* last run reaches the end of the mask.
C2_Witness ==
    /\ pc = "ranges"
    /\ Len(spaces) > 0
    /\ spaces[1]
    /\ ~spaces[Len(spaces)]
    /\ Len(col_ranges) >= 2
    /\ col_ranges[Len(col_ranges)][2] = Len(spaces)

(***************************************************************************)
(* Specification SpecMain: a run of unjustify's main.                      *)
(***************************************************************************)
MainChars == {" ", "A"}

\* Sequences of at most n lines holding at most c characters in total.
RECURSIVE LinesUpTo(_, _, _)
LinesUpTo(S, n, c) ==
    IF n = 0 THEN {<<>>}
    ELSE {<<>>} \cup
         UNION {{<<l>> \o rest : rest \in LinesUpTo(S, n - 1, c - Len(l))} :
                   l \in StringsUpTo(S, c)}

MainDesired == {<<>>, << <<>> >>, << <<"a">> >>, << <<"A">>, <<"a">> >>}

MainArgs ==
    {[DefaultCli EXCEPT !.output_columns = d, !.insensitive = ins, !.header = h,
                        !.output_delimiter = od, !.unit_separator = us,
                        !.line_delimiter = ld, !.record_separator = rs,
                        !.null_end_line = nul] :
        d \in MainDesired, ins \in BOOLEAN, h \in BOOLEAN,
        od \in {None, Some(<<";">>)}, us \in BOOLEAN,
        ld \in {None, Some(<<"|">>)}, rs \in BOOLEAN, nul \in BOOLEAN}

InitMain ==
    /\ pc = "start"
    /\ args \in MainArgs
    /\ stdin \in LinesUpTo(MainChars, MainMaxLines, MainMaxChars)
    /\ lines = <<>>
    /\ spaces = <<>>
    /\ col_ranges = <<>>
    /\ out_ranges = <<>>
    /\ outlns = <<>>
    /\ stdout = <<>>
    /\ exit_code = None
    /\ Idle

\* main, lines 207-215: --border, validate, exit 1 on a conflict.
Validate ==
    /\ pc = "start"
    /\ LET a == IF args.border
                THEN [args EXCEPT !.delimiters = @ \o BorderChars]
                ELSE args
       IN  /\ args' = a
           /\ IF Len(validate(a)) > 0
              THEN pc' = "exit" /\ exit_code' = Some(1)
              ELSE pc' = "read" /\ exit_code' = exit_code
    /\ UNCHANGED <<stdin, lines, spaces, col_ranges, out_ranges, outlns, stdout>>
    /\ UNCHANGED unnest_vars

\* main, lines 217-223: every line of standard input is collected; exit 2
\* when there is none.
ReadLines ==
    /\ pc = "read"
    /\ lines' = stdin
    /\ IF Len(stdin) = 0
       THEN pc' = "exit" /\ exit_code' = Some(2)
       ELSE pc' = "infer" /\ exit_code' = exit_code
    /\ UNCHANGED <<args, stdin, spaces, col_ranges, out_ranges, outlns, stdout>>
    /\ UNCHANGED unnest_vars

\* main, lines 224-230: the mask, the ranges, the selected ranges.
Infer ==
    /\ pc = "infer"
    /\ LET mask == IF args.header
                   THEN update_spaces(args, <<>>, lines[1])
                   ELSE fold_update_spaces(args, <<>>, lines)
           cols == columns(mask)
       IN  /\ spaces' = mask
           /\ col_ranges' = cols
           /\ out_ranges' = output_columns(cols, lines[1], args.output_columns,
                                           args.insensitive)
    /\ pc' = "emit"
    /\ UNCHANGED <<args, stdin, lines, outlns, stdout, exit_code>>
    /\ UNCHANGED unnest_vars

\* main, lines 232-235: one iteration of the output loop.
EmitRow ==
    /\ pc = "emit"
    /\ Len(outlns) < Len(lines)
    /\ LET string == lines[Len(outlns) + 1]
           outln == split_line(out_ranges, string)
       IN  /\ outlns' = Append(outlns, outln)
           /\ stdout' = Append(stdout,
                               join(outln, computed_output_delimiter(args))
                                  \o computed_line_delimiter(args))
    /\ UNCHANGED <<pc, args, stdin, lines, spaces, col_ranges, out_ranges, exit_code>>
    /\ UNCHANGED unnest_vars

\* main, line 237: Ok(()) once every line is printed.
Finish ==
    /\ pc = "emit"
    /\ Len(outlns) = Len(lines)
    /\ pc' = "exit"
    /\ exit_code' = Some(0)
    /\ UNCHANGED <<args, stdin, lines, spaces, col_ranges, out_ranges, outlns, stdout>>
    /\ UNCHANGED unnest_vars

NextMain ==
    \/ Validate
    \/ ReadLines
    \/ Infer
    \/ EmitRow
    \/ Finish

SpecMain == InitMain /\ [][NextMain]_vars

(***************************************************************************)
(* Claims about a run of main, checked under SpecMain.                     *)
(***************************************************************************)
\* The text of line at positions [start, min(end, length of line)) of a
\* range: empty when the line ends at or before start.
ClampedText(line, range) ==
    IF range[1] >= Len(line) THEN <<>>
    ELSE SubSeq(line, range[1] + 1, Min(range[2], Len(line)))

\* C3: split_line yields one field per range, in range order, the field of
\* [start, end) being the trimmed text of the line at [start, min(end, len)):
\* truncated for a short line, empty for a line that ends at or before
\* start; as many fields as ranges.
C3_OneFieldPerRange ==
    \A i \in 1..Len(outlns) :
        /\ Len(outlns[i]) = Len(out_ranges)
        /\ \A r \in 1..Min(Len(outlns[i]), Len(out_ranges)) :
              outlns[i][r] = trim(ClampedText(lines[i], out_ranges[r]))

\* What split_line does: the ranges that start at or after the end of the
\* line yield no field at all, the others their trimmed clamped text.
C3_FieldsOfRangesWithinLine ==
    \A i \in 1..Len(outlns) :
        LET within(range) == range[1] < Len(lines[i])
            kept == SelectSeq(out_ranges, within)
        IN  /\ Len(outlns[i]) = Len(kept)
            /\ \A r \in 1..Len(kept) :
                  outlns[i][r] = trim(ClampedText(lines[i], kept[r]))

\* C7: with no desired names output_columns returns every inferred range;
\* otherwise it returns, in the order requested, for each requested name
\* that equals the header string of some inferred range (the trimmed field
\* of the first line in that range, both sides lowercased when matching is
\* case-insensitive) such a range, and nothing for the other names.
C7_SelectedByHeader ==
    pc = "emit" =>
        LET desired == args.output_columns
            fold(str) == IF args.insensitive THEN to_lowercase(str) ELSE str
            header_string(range) == fold(trim(ClampedText(lines[1], range)))
            matches(name) ==
                \E r \in 1..Len(col_ranges) :
                    header_string(col_ranges[r]) = fold(name)
            resolved == SelectSeq(desired, matches)
        IN  IF Len(desired) = 0
            THEN out_ranges = col_ranges
            ELSE /\ Len(out_ranges) = Len(resolved)
                 /\ \A k \in 1..Min(Len(out_ranges), Len(resolved)) :
                       \E r \in 1..Len(col_ranges) :
                          /\ out_ranges[k] = col_ranges[r]
                          /\ header_string(col_ranges[r]) = fold(resolved[k])

\* What output_columns does: the same, the inferred ranges that start at or
\* after the end of the first line having no header string at all.
C7_SelectedByHeaderWithinFirstLine ==
    pc = "emit" =>
        LET desired == args.output_columns
            fold(str) == IF args.insensitive THEN to_lowercase(str) ELSE str
            header_string(range) == fold(trim(ClampedText(lines[1], range)))
            matches(name) ==
                \E r \in 1..Len(col_ranges) :
                    /\ col_ranges[r][1] < Len(lines[1])
                    /\ header_string(col_ranges[r]) = fold(name)
            resolved == SelectSeq(desired, matches)
        IN  IF Len(desired) = 0
            THEN out_ranges = col_ranges
            ELSE /\ Len(out_ranges) = Len(resolved)
                 /\ \A k \in 1..Min(Len(out_ranges), Len(resolved)) :
                       \E r \in 1..Len(col_ranges) :
                          /\ out_ranges[k] = col_ranges[r]
                          /\ col_ranges[r][1] < Len(lines[1])
                          /\ header_string(col_ranges[r]) = fold(resolved[k])

\* More than one option of a group is set.
OutputConflict(a) ==
    Cardinality({o \in {"output", "unit_separator"} :
        \/ o = "output" /\ a.output_delimiter # None
        \/ o = "unit_separator" /\ a.unit_separator}) > 1

LineConflict(a) ==
    Cardinality({o \in {"line_delimiter", "null", "record_separator"} :
        \/ o = "line_delimiter" /\ a.line_delimiter # None
        \/ o = "null" /\ a.null_end_line
        \/ o = "record_separator" /\ a.record_separator}) > 1

JNull == [t |-> "Null", s |-> "", b |-> FALSE, n |-> 0, arr |-> <<>>, map |-> <<>>]

JString(str) == [JNull EXCEPT !.t = "String", !.s = str]

JBool(bool) == [JNull EXCEPT !.t = "Bool", !.b = bool]

JNumber(num) == [JNull EXCEPT !.t = "Number", !.n = num]

JArray(elements) == [JNull EXCEPT !.t = "Array", !.arr = elements]

JObject(entries) == [JNull EXCEPT !.t = "Object", !.map = entries]

Entry(k, v) == [key |-> k, value |-> v]

\* format!("{}", b) of a bool.
format_bool(b) == IF b THEN "true" ELSE "false"

Digits == <<"0", "1", "2", "3", "4", "5", "6", "7", "8", "9">>

\* format!("{}", n) of an integer Number.
RECURSIVE format_natural(_)
format_natural(n) ==
    IF n < 10 THEN Digits[n + 1]
    ELSE format_natural(n \div 10) \o Digits[(n % 10) + 1]

format_number(n) == IF n < 0 THEN "-" \o format_natural(0 - n) ELSE format_natural(n)

UnnestDefaultCli == [attribute_separator |-> ".", missing |-> ""]

\* Mutant: the name is pushed without looking for it first.
ensure_always_push(cols, name) == Append(cols, name)

ensure(cols, name) ==
    IF \E i \in 1..Len(cols) : cols[i] = name THEN cols ELSE Append(cols, name)

singleton(p, value) == << [k \in {p} |-> value] >>

\* HashMap::extend: the entries of b are inserted into a, replacing the
\* values of the keys a already holds.
extend(a, b) ==
    [k \in DOMAIN a \cup DOMAIN b |-> IF k \in DOMAIN b THEN b[k] ELSE a[k]]

\* recurse_map, lines 64-69: for a in acc { for b in &rhs { ret.push(..) } }.
RECURSIVE merge_inner(_, _, _, _)
merge_inner(a, rhs, j, ret) ==
    IF j > Len(rhs) THEN ret
    ELSE merge_inner(a, rhs, j + 1, Append(ret, extend(a, rhs[j])))

RECURSIVE merge_outer(_, _, _, _)
merge_outer(acc, rhs, i, ret) ==
    IF i > Len(acc) THEN ret
    ELSE merge_outer(acc, rhs, i + 1, merge_inner(acc[i], rhs, 1, ret))

\* Mutant: the two loops are nested the other way round.
RECURSIVE merge_pairs_rhs_outer_from(_, _, _, _)
merge_pairs_rhs_outer_from(acc, rhs, j, ret) ==
    IF j > Len(rhs) THEN ret
    ELSE merge_pairs_rhs_outer_from(
             acc, rhs, j + 1,
             ret \o [i \in 1..Len(acc) |-> extend(acc[i], rhs[j])])

merge_pairs_rhs_outer(acc, rhs) == merge_pairs_rhs_outer_from(acc, rhs, 1, <<>>)

merge_pairs(acc, rhs) == merge_outer(acc, rhs, 1, <<>>)

path_key(a, p, key) == IF p = "" THEN key ELSE p \o a.attribute_separator \o key

RECURSIVE recurse_value(_, _, _, _)

\* The fold of recurse_array from element i on; acc holds the rows and the
\* column registry so far.
RECURSIVE recurse_array_from(_, _, _, _, _)
recurse_array_from(a, p, array, i, acc) ==
    IF i > Len(array) THEN acc
    ELSE LET r == recurse_value(a, acc.columns, p, array[i])
         IN  recurse_array_from(a, p, array, i + 1,
                                [rows |-> acc.rows \o r.rows, columns |-> r.columns])

\* Mutant: the rows of an element are put in front of the accumulated rows.
RECURSIVE recurse_array_prepend_from(_, _, _, _, _)
recurse_array_prepend_from(a, p, array, i, acc) ==
    IF i > Len(array) THEN acc
    ELSE LET r == recurse_value(a, acc.columns, p, array[i])
         IN  recurse_array_prepend_from(a, p, array, i + 1,
                                [rows |-> r.rows \o acc.rows, columns |-> r.columns])

recurse_array_prepend(a, cols, p, array) ==
    recurse_array_prepend_from(a, p, array, 1, [rows |-> <<>>, columns |-> cols])

recurse_array(a, cols, p, array) ==
    recurse_array_from(a, p, array, 1, [rows |-> <<>>, columns |-> cols])

\* The fold of recurse_map from entry i on.
RECURSIVE recurse_map_from(_, _, _, _, _)
recurse_map_from(a, p, map, i, acc) ==
    IF i > Len(map) THEN acc
    ELSE LET rhs == recurse_value(a, acc.columns, path_key(a, p, map[i].key),
                                  map[i].value)
         IN  recurse_map_from(a, p, map, i + 1,
                              [rows |-> merge_pairs(acc.rows, rhs.rows),
                               columns |-> rhs.columns])

recurse_map(a, cols, p, map) ==
    recurse_map_from(a, p, map, 1, [rows |-> << <<>> >>, columns |-> cols])

recurse_value(a, cols, p, value) ==
    CASE value.t = "Null" -> [rows |-> <<>>, columns |-> cols]
      [] value.t = "String" ->
            [rows |-> singleton(p, value.s), columns |-> ensure(cols, p)]
      [] value.t = "Bool" ->
            [rows |-> singleton(p, format_bool(value.b)), columns |-> ensure(cols, p)]
      [] value.t = "Number" ->
            [rows |-> singleton(p, format_number(value.n)), columns |-> ensure(cols, p)]
      [] value.t = "Array" -> recurse_array(a, cols, p, value.arr)
      [] value.t = "Object" -> recurse_map(a, cols, p, value.map)

(***************************************************************************)
(* Specification SpecUnnest: recurse_value applied, with an empty column   *)
(* registry, to every tree of at most MaxNodes nodes and to the trees of   *)
(* the tests, at the root path and at a nested one.                        *)
(***************************************************************************)
Leaves ==
    {JNull, JString("x"), JString("y"), JBool(TRUE), JBool(FALSE), JNumber(12)}

Keys == {"a", "b"}

\* The sequences of m distinct keys.
KeySeqs(m) ==
    {ks \in [1..m -> Keys] : \A i, j \in 1..m : ks[i] = ks[j] => i = j}

RECURSIVE TreesOfSize(_)
RECURSIVE ForestsOfSize(_)

\* The sequences of trees holding n nodes in total.
ForestsOfSize(n) ==
    IF n = 0 THEN {<<>>}
    ELSE UNION {{<<tr>> \o f : tr \in TreesOfSize(k), f \in ForestsOfSize(n - k)} :
                   k \in 1..n}

\* The trees of exactly n nodes.
TreesOfSize(n) ==
    IF n = 1 THEN Leaves \cup {JArray(<<>>), JObject(<<>>)}
    ELSE LET forests == ForestsOfSize(n - 1)
         IN  {JArray(f) : f \in forests}
             \cup UNION {{JObject([i \in 1..Len(f) |-> Entry(ks[i], f[i])]) :
                             ks \in KeySeqs(Len(f))} :
                            f \in {g \in forests : Len(g) <= Cardinality(Keys)}}

\* The input of the cross-product example and of tests::cross_product.
CrossExample ==
    JObject(<<Entry("a", JArray(<<JString("x"), JString("y")>>)),
              Entry("b", JArray(<<JString("p"), JString("q")>>))>>)

CrossProductTest ==
    JObject(<<Entry("a", JArray(<<JString("foo"), JString("bar")>>)),
              Entry("b", JArray(<<JString("alpha"), JString("bravo")>>))>>)

\* Objects of two or three keys, each holding a list of at most two entries.
ShortLists == StringsUpTo({JString("x"), JString("y"), JNull}, 2)

CrossFamily ==
    {JObject(<<Entry("a", JArray(l1)), Entry("b", JArray(l2))>>) :
        l1 \in ShortLists, l2 \in ShortLists}
    \cup {JObject(<<Entry("c", JArray(l1)), Entry("a", JArray(l2)),
                    Entry("b", JArray(<<JString("x"), JNumber(-7)>>))>>) :
            l1 \in ShortLists, l2 \in ShortLists}

\* Arrays of two objects, each holding a list under key a: the
\* concatenation example; and the inputs of tests::outer_list,
\* tests::list_of_objects and tests::merge_disjoint_keys.
ConcatFamily ==
    {JArray(<<JObject(<<Entry("a", JArray(l1))>>),
              JObject(<<Entry("a", JArray(l2))>>)>>) :
        l1 \in ShortLists, l2 \in ShortLists}

OuterListTest ==
    JArray(<<JObject(<<Entry("a", JString("alpha")), Entry("b", JString("bog"))>>),
             JObject(<<Entry("a", JString("ack")), Entry("b", JString("big"))>>)>>)

ListOfObjectsTest ==
    JObject(<<Entry("a", JString("foo")),
              Entry("b", JArray(<<
                  JObject(<<Entry("c", JString("alpha")), Entry("d", JString("bravo"))>>),
                  JObject(<<Entry("c", JString("charlie")), Entry("d", JString("delta"))>>)
              >>))>>)

MergeDisjointKeysTest ==
    JArray(<<JObject(<<Entry("a", JString("alpha"))>>),
             JObject(<<Entry("b", JString("bravo")), Entry("c", JString("charlie"))>>)>>)

\* The input of the null-dropping example.
NullSiblingExample ==
    JObject(<<Entry("a", JNull), Entry("b", JString("v"))>>)

ExampleTrees ==
    {CrossExample, CrossProductTest, OuterListTest, ListOfObjectsTest,
     MergeDisjointKeysTest, NullSiblingExample}
    \cup CrossFamily \cup ConcatFamily

\* json is a tree of exactly n nodes: a leaf or an empty container, or an
\* array or an object over a first child and the forest of the others.
JsonOfSize(n) ==
    IF n = 1 THEN json \in TreesOfSize(1)
    ELSE \E k \in 1..(n - 1) :
           \E first \in TreesOfSize(k) : \E rest \in ForestsOfSize(n - 1 - k) :
              LET f == <<first>> \o rest
              IN  \/ json = JArray(f)
                  \/ /\ Len(f) <= Cardinality(Keys)
                     /\ \E ks \in KeySeqs(Len(f)) :
                           json = JObject([i \in 1..Len(f) |-> Entry(ks[i], f[i])])

IdleUnjustify ==
    /\ args = DefaultCli
    /\ stdin = <<>>
    /\ lines = <<>>
    /\ spaces = <<>>
    /\ col_ranges = <<>>
    /\ out_ranges = <<>>
    /\ outlns = <<>>
    /\ stdout = <<>>
    /\ exit_code = None

InitUnnest ==
    /\ pc = "parsed"
    /\ nargs \in {[UnnestDefaultCli EXCEPT !.attribute_separator = sep] :
                     sep \in {".", "::"}}
    /\ \/ \E n \in 1..MaxNodes : JsonOfSize(n)
       \/ json \in ExampleTrees
    /\ path \in {"", "p"}
    /\ registry = <<>>
    /\ rows = <<>>
    /\ IdleUnjustify

\* unnest main, lines 109-110 (path ""), and the nested calls of lines 50
\* and 61 (path "p").
Flatten ==
    /\ pc = "parsed"
    /\ LET r == recurse_value(nargs, registry, path, json)
       IN  /\ rows' = r.rows
           /\ registry' = r.columns
    /\ pc' = "flattened"
    /\ UNCHANGED <<nargs, json, path>>
    /\ UNCHANGED unjustify_vars

NextUnnest == Flatten

SpecUnnest == InitUnnest /\ [][NextUnnest]_vars

(***************************************************************************)
(* Claims about the flattener, checked under SpecUnnest.                   *)
(***************************************************************************)
\* The rows of a child flattened on its own.
RowsOf(p, value) == recurse_value(nargs, <<>>, p, value).rows

RECURSIVE Product(_, _)
Product(f, n) == IF n = 0 THEN 1 ELSE f[n] * Product(f, n - 1)

RECURSIVE Sum(_, _)
Sum(f, n) == IF n = 0 THEN 0 ELSE f[n] + Sum(f, n - 1)

\* The merged map of one row per child: the rows chosen by c, the later
\* child's entries laid over the earlier ones.
RECURSIVE MergedRow(_, _, _)
MergedRow(child, c, n) ==
    IF n = 0 THEN <<>>
    ELSE LET earlier == MergedRow(child, c, n - 1)
             row == child[n][c[n]]
         IN  [k \in DOMAIN earlier \cup DOMAIN row |->
                 IF k \in DOMAIN row THEN row[k] ELSE earlier[k]]

\* C4: flattening an object yields the cross-join of its children's row
\* lists in key iteration order: as many rows as the product of the
\* children's row counts, each combination of one row per child at its own
\* position as the merged map, earlier keys varying slowest; the object
\* {"a": ["x","y"], "b": ["p","q"]} yields (a=x,b=p) (a=x,b=q) (a=y,b=p)
\* (a=y,b=q) in that order.
C4_ObjectIsCrossJoin ==
    (pc = "flattened" /\ json.t = "Object") =>
        LET m == Len(json.map)
            child == [i \in 1..m |->
                         RowsOf(path_key(nargs, path, json.map[i].key),
                                json.map[i].value)]
            count == [i \in 1..m |-> Len(child[i])]
            \* the number of combinations of the children after child i
            stride(i) == Product([j \in 1..(m - i) |-> count[i + j]], m - i)
            position(c) == 1 + Sum([i \in 1..m |-> (c[i] - 1) * stride(i)], m)
            combinations ==
                {c \in [1..m -> 1..Len(rows)] : \A i \in 1..m : c[i] <= count[i]}
        IN  /\ Len(rows) = Product(count, m)
            /\ \A c \in combinations : rows[position(c)] = MergedRow(child, c, m)
            /\ \A c, d \in combinations : position(c) = position(d) => c = d
            /\ (json = CrossExample /\ path = "") =>
                  rows = << [k \in {"a", "b"} |-> IF k = "a" THEN "x" ELSE "p"],
                            [k \in {"a", "b"} |-> IF k = "a" THEN "x" ELSE "q"],
                            [k \in {"a", "b"} |-> IF k = "a" THEN "y" ELSE "p"],
                            [k \in {"a", "b"} |-> IF k = "a" THEN "y" ELSE "q"] >>

\* The flattened cross-product example: four rows, the first (a=x, b=p).
C4_Witness ==
    /\ pc = "flattened"
    /\ json = CrossExample
    /\ path = ""
    /\ Len(rows) = 4
    /\ rows[2]["a"] = "x"
    /\ rows[2]["b"] = "q"

\* C5: flattening an array yields the concatenation, in element order, of
\* the row lists of its elements flattened at the array's own path: as many
\* rows as the sum of the elements' row counts; an array of two objects
\* that each hold a two-element list under key a yields four rows.
C5_ArrayIsConcatenation ==
    (pc = "flattened" /\ json.t = "Array") =>
        LET m == Len(json.arr)
            child == [i \in 1..m |-> RowsOf(path, json.arr[i])]
            count == [i \in 1..m |-> Len(child[i])]
            offset(i) == Sum(count, i - 1)
        IN  /\ Len(rows) = Sum(count, m)
            /\ \A i \in 1..m : \A j \in 1..count[i] :
                  rows[offset(i) + j] = child[i][j]
            /\ (/\ m = 2
                /\ \A i \in 1..2 :
                      /\ json.arr[i].t = "Object"
                      /\ Len(json.arr[i].map) = 1
                      /\ json.arr[i].map[1].key = "a"
                      /\ json.arr[i].map[1].value.t = "Array"
                      /\ Len(json.arr[i].map[1].value.arr) = 2
                      /\ \A e \in 1..2 : json.arr[i].map[1].value.arr[e].t = "String")
                  => Len(rows) = 4

\* An array of two objects, each holding a two-element list of strings
\* under key a, the two lists different: four rows, the first object's
\* rows first.
C5_Witness ==
    /\ pc = "flattened"
    /\ json = JArray(<<JObject(<<Entry("a", JArray(<<JString("x"), JString("y")>>))>>),
                       JObject(<<Entry("a", JArray(<<JString("y"), JString("x")>>))>>)>>)
    /\ path = "p"
    /\ nargs.attribute_separator = "."
    /\ Len(rows) = 4
    /\ rows[1]["p.a"] = "x"
    /\ rows[3]["p.a"] = "y"

\* C6: flattening an object in which one key holds null and a sibling key
\* holds a scalar, such as {"a": null, "b": "v"}, produces exactly one row,
\* holding only the sibling's path and value, and the null key's path is
\* not in the column registry.
C6_NullSiblingKeepsRow ==
    (/\ pc = "flattened"
     /\ json.t = "Object"
     /\ Len(json.map) = 2
     /\ \E i \in 1..2 :
           /\ json.map[i].value.t = "Null"
           /\ json.map[3 - i].value.t \in {"String", "Bool", "Number"}) =>
        LET i == CHOOSE i \in 1..2 : json.map[i].value.t = "Null"
            sibling == json.map[3 - i]
            sibling_path == path_key(nargs, path, sibling.key)
        IN  /\ Len(rows) = 1
            /\ DOMAIN rows[1] = {sibling_path}
            /\ rows[1][sibling_path] =
                  (CASE sibling.value.t = "String" -> sibling.value.s
                     [] sibling.value.t = "Bool" -> format_bool(sibling.value.b)
                     [] sibling.value.t = "Number" -> format_number(sibling.value.n))
            /\ \A c \in 1..Len(registry) :
                  registry[c] # path_key(nargs, path, json.map[i].key)

\* What recurse_map does there: the null child's empty row list empties the
\* cross-join, so no row is left; the sibling's path is still registered
\* and the null key's path is not.
C6_NullSiblingDropsEveryRow ==
    (/\ pc = "flattened"
     /\ json.t = "Object"
     /\ \E i \in 1..Len(json.map) : json.map[i].value.t = "Null") =>
        /\ rows = <<>>
        /\ \A i \in 1..Len(json.map) :
              /\ json.map[i].value.t = "Null" =>
                    \A c \in 1..Len(registry) :
                       registry[c] # path_key(nargs, path, json.map[i].key)
              /\ json.map[i].value.t \in {"String", "Bool", "Number"} =>
                    \E c \in 1..Len(registry) :
                       registry[c] = path_key(nargs, path, json.map[i].key)

\* The paths of the String, Bool and Number leaves of value, in the order
\* the walk visits them (object entries in iteration order, array elements
\* in element order, every element at the array's own path), a path once
\* per visit.
RECURSIVE LeafVisits(_, _)
LeafVisits(p, value) ==
    LET RECURSIVE inArray(_)
        inArray(i) ==
            IF i > Len(value.arr) THEN <<>>
            ELSE LeafVisits(p, value.arr[i]) \o inArray(i + 1)
        RECURSIVE inObject(_)
        inObject(i) ==
            IF i > Len(value.map) THEN <<>>
            ELSE LeafVisits(IF p = "" THEN value.map[i].key
                            ELSE p \o nargs.attribute_separator \o value.map[i].key,
                            value.map[i].value)
                 \o inObject(i + 1)
    IN  CASE value.t \in {"String", "Bool", "Number"} -> <<p>>
          [] value.t = "Array" -> inArray(1)
          [] value.t = "Object" -> inObject(1)
          [] OTHER -> <<>>

\* C11: after flattening a tree from an empty column registry, the registry
\* holds each path at most once, holds exactly the paths at which a String,
\* Bool or Number leaf was visited, in the order of their first visit, and
\* every key of every returned row is a path of the registry.
C11_RegistryIsFirstVisitOrder ==
    pc = "flattened" =>
        LET visits == LeafVisits(path, json)
            n == Len(registry)
            firstVisit(c) ==
                CHOOSE v \in 1..Len(visits) :
                    /\ visits[v] = registry[c]
                    /\ \A u \in 1..(v - 1) : visits[u] # registry[c]
        IN  /\ \A c, d \in 1..n : registry[c] = registry[d] => c = d
            /\ {registry[c] : c \in 1..n} = {visits[v] : v \in 1..Len(visits)}
            /\ \A c, d \in 1..n : c < d => firstVisit(c) < firstVisit(d)
            /\ \A r \in 1..Len(rows) :
                  DOMAIN rows[r] \subseteq {registry[c] : c \in 1..n}

\* The three-key object {"c": [..], "a": [..], "b": ["x", -7]} flattened at
\* the root: more leaf visits than paths, the registry in visit order c, a,
\* b, and rows returned.
C11_Witness ==
    /\ pc = "flattened"
    /\ path = ""
    /\ json.t = "Object"
    /\ registry = <<"c", "a", "b">>
    /\ Len(LeafVisits(path, json)) = 6
    /\ Len(rows) = 8

====
